---- MODULE Spec2Model ----
(***************************************************************************)
(* tundialer-native/tundialer.c: the N-API function Connect(iface, ip,     *)
(* port).  It opens a TCP/IPv4 socket, binds it to a network interface     *)
(* with SO_BINDTODEVICE, sets TCP_NODELAY, parses the address, connects    *)
(* and returns the descriptor to the JavaScript caller.                    *)
(*                                                                         *)
(* Strings are sequences of one-character strings; NUL is the zero byte.   *)
(* The process's descriptor table has MaxFd slots.  sys is the history of  *)
(* the system and library calls the current invocation has issued.         *)
(***************************************************************************)
EXTENDS Integers, Sequences, FiniteSets, TLC

MaxFd == 2

IFNAMSIZ == 16
INET_ADDRSTRLEN == 16

NUL == "NUL"
NoFd == -1

Min(a, b) == IF a < b THEN a ELSE b

(* ------------------------------ host values --------------------------- *)
(* A JavaScript value handed to the function: a string, a number that is   *)
(* an integer of the signed 32-bit range, or undefined.                    *)
JsString(str) == [t |-> "string", str |-> str, num |-> 0]
JsNumber(n) == [t |-> "number", str |-> <<>>, num |-> n]
JsUndefined == [t |-> "undefined", str |-> <<>>, num |-> 0]
JsNull == [t |-> "null", str |-> <<>>, num |-> 0]

Str_lo == <<"l", "o">>
Str_wg15 == <<"w","i","r","e","g","u","a","r","d","-","v","p","n","-","0">>
Str_wg16 == Str_wg15 \o <<"1">>
Str_nodev == <<"d","o","e","s","n","o","t","e","x","i","s","t","0">>
Str_nodev16 == Str_nodev \o <<"0", "0", "0">>
Str_loNul == <<"l", "o", NUL, "x">>

Ip_loopback == <<"1","2","7",".","0",".","0",".","1">>
Ip_max15 == <<"1","2","3",".","1","2","3",".","1","2","3",".","1","2","3">>
Ip_long16 == Ip_max15 \o <<"4">>
Ip_notanip == <<"n","o","t","-","a","n","-","i","p">>
Ip_999 == <<"9","9","9",".","9","9","9",".","9","9","9",".","9","9","9">>
Ip_lead0 == <<"1",".","2",".","3",".","0","4">>

(* The interfaces that exist on the host. *)
Interfaces == {Str_lo, Str_wg15}

IfaceArgs == <<JsString(Str_lo), JsString(Str_wg15), JsString(Str_wg16),
               JsString(Str_nodev), JsString(Str_nodev16), JsString(<<>>),
               JsString(Str_loNul), JsNumber(7)>>
IpArgs == <<JsString(Ip_loopback), JsString(Ip_max15), JsString(Ip_long16),
            JsString(Ip_notanip), JsString(Ip_999), JsString(Ip_lead0),
            JsUndefined>>
PortArgs == <<JsNumber(80), JsNumber(0), JsNumber(65535), JsNumber(65616),
              JsNumber(-1), JsString(<<"8", "0">>)>>

ConnectErrnos == {"ECONNREFUSED", "ENETUNREACH"}

(* ------------------------------ state --------------------------------- *)
VARIABLES
    pc,        \* position of the calling thread in Connect
    info,      \* the arguments the caller passed (napi_callback_info)
    argc,      \* size_t argc
    args,      \* napi_value args[3]
    iface,     \* char iface[IFNAMSIZ], the bytes copied before the terminator
    ip,        \* char ip[INET_ADDRSTRLEN], the bytes copied before the terminator
    port,      \* int32_t port
    s,         \* int s
    a,         \* struct sockaddr_in a: sin_port (network order), sin_addr
    exc,       \* the JavaScript exception pending in env
    ret,       \* the napi_value Connect returned
    sockets,   \* the kernel's table of this process's socket descriptors
    before,    \* the descriptors open when the current invocation began
    sys,       \* the system and library calls of the current invocation
    twin       \* a second run of the same invocation, for comparing runs

vars == <<pc, info, argc, args, iface, ip, port, s, a, exc, ret, sockets,
          before, sys, twin>>

Fds == 0 .. (MaxFd - 1)

Closed == [open |-> FALSE, dev |-> <<>>, connected |-> FALSE]
NoExc == [code |-> "NULL", msg |-> ""]
ZeroAddr == <<0, 0, 0, 0>>
NoAddr == [sin_port |-> 0, sin_addr |-> ZeroAddr]

OpenFds(tab) == {fd \in Fds : tab[fd].open}

(* One entry of sys. *)
Sys(op, fd, r) ==
    [op |-> op, fd |-> fd, ret |-> r, errno |-> "", name |-> <<>>,
     addr |-> <<>>, port |-> 0]

(* The state of one run as a record. *)
World ==
    [pc |-> pc, info |-> info, argc |-> argc, args |-> args, iface |-> iface,
     ip |-> ip, port |-> port, s |-> s, a |-> a, exc |-> exc, ret |-> ret,
     sockets |-> sockets, before |-> before, sys |-> sys]

Install(w) ==
    /\ pc' = w.pc
    /\ info' = w.info
    /\ argc' = w.argc
    /\ args' = w.args
    /\ iface' = w.iface
    /\ ip' = w.ip
    /\ port' = w.port
    /\ s' = w.s
    /\ a' = w.a
    /\ exc' = w.exc
    /\ ret' = w.ret
    /\ sockets' = w.sockets
    /\ before' = w.before
    /\ sys' = w.sys

Idle(tab) ==
    [pc |-> "idle", info |-> <<>>, argc |-> 0, args |-> <<>>, iface |-> <<>>,
     ip |-> <<>>, port |-> 0, s |-> NoFd, a |-> NoAddr, exc |-> NoExc,
     ret |-> JsNull, sockets |-> tab, before |-> {}, sys |-> <<>>]

(* ------------------------------ library ------------------------------- *)
(* The C string held in a buffer: the bytes before the first zero byte. *)
RECURSIVE strlen(_)
strlen(buf) ==
    IF buf = <<>> \/ Head(buf) = NUL THEN 0 ELSE 1 + strlen(Tail(buf))

CStr(buf) == SubSeq(buf, 1, strlen(buf))

(* napi_get_value_string_utf8(env, value, buf, bufsize, &len): copies at     *)
(* most bufsize - 1 bytes of the string and terminates them.                *)
napi_get_value_string_utf8(value, bufsize) ==
    IF value.t # "string"
    THEN [status |-> "napi_string_expected", buf |-> <<>>]
    ELSE [status |-> "napi_ok",
          buf |-> SubSeq(value.str, 1, Min(Len(value.str), bufsize - 1))]

(* napi_get_value_int32(env, value, &result). *)
napi_get_value_int32(value) ==
    IF value.t # "number"
    THEN [status |-> "napi_number_expected", value |-> 0]
    ELSE [status |-> "napi_ok", value |-> value.num]

(* The byte swap of a 16-bit value on a little-endian host. *)
Swap16(x) == (x % 256) * 256 + (x \div 256)

htons_noswap(p) == p % 65536

(* htons(port): the int32 argument is converted to uint16_t, then swapped. *)
htons(p) == Swap16(p % 65536)

ntohs(x) == Swap16(x)

Digits == {"0", "1", "2", "3", "4", "5", "6", "7", "8", "9"}

DigitVal(ch) ==
    CASE ch = "0" -> 0 [] ch = "1" -> 1 [] ch = "2" -> 2 [] ch = "3" -> 3
      [] ch = "4" -> 4 [] ch = "5" -> 5 [] ch = "6" -> 6 [] ch = "7" -> 7
      [] ch = "8" -> 8 [] ch = "9" -> 9

(* inet_pton(AF_INET, src, dst): the loop of the C library's inet_pton4.    *)
(* tmp holds the octets read so far, the last one being filled.             *)
RECURSIVE inet_pton4(_, _, _)
inet_pton4(src, tmp, saw_digit) ==
    IF src = <<>>
    THEN IF Len(tmp) < 4
         THEN [ok |-> FALSE, addr |-> ZeroAddr]
         ELSE [ok |-> TRUE, addr |-> tmp]
    ELSE LET ch == Head(src)
             n == Len(tmp)
         IN IF ch \in Digits
            THEN IF saw_digit
                 THEN LET new == tmp[n] * 10 + DigitVal(ch)
                      IN IF tmp[n] = 0 \/ new > 255
                         THEN [ok |-> FALSE, addr |-> ZeroAddr]
                         ELSE inet_pton4(Tail(src), [tmp EXCEPT ![n] = new], TRUE)
                 ELSE IF n = 4
                      THEN [ok |-> FALSE, addr |-> ZeroAddr]
                      ELSE inet_pton4(Tail(src), Append(tmp, DigitVal(ch)), TRUE)
            ELSE IF ch = "." /\ saw_digit
                 THEN IF n = 4
                      THEN [ok |-> FALSE, addr |-> ZeroAddr]
                      ELSE inet_pton4(Tail(src), tmp, FALSE)
                 ELSE [ok |-> FALSE, addr |-> ZeroAddr]

inet_pton(src) == inet_pton4(src, <<>>, FALSE)

(* ------------------------------ kernel -------------------------------- *)
(* The lowest free descriptor. *)
LowestFree(tab) == CHOOSE fd \in Fds \ OpenFds(tab) :
                       \A other \in Fds \ OpenFds(tab) : fd <= other

(* The results socket() can have: a new descriptor, or -1. *)
SocketResults(tab) ==
    {NoFd} \cup (IF OpenFds(tab) = Fds THEN {} ELSE {LowestFree(tab)})

(* The results setsockopt(SO_BINDTODEVICE, name) can have.  An empty name    *)
(* removes the binding and succeeds; a name that is no interface is ENODEV; *)
(* the caller may lack the privilege.                                      *)
BindToDeviceResults(name) ==
    {"EPERM"} \cup (IF name = <<>> \/ name \in Interfaces THEN {"ok"} ELSE {"ENODEV"})

(* close(fd) *)
close(w, fd) ==
    [w EXCEPT !.sockets[fd] = Closed,
              !.sys = Append(@, Sys("close", fd, 0))]

(* ------------------------------ Connect ------------------------------- *)
(* napi_throw_error(env, code, msg); return NULL; *)
Throw(w, code, msg) ==
    [w EXCEPT !.exc = [code |-> code, msg |-> msg], !.ret = JsNull,
              !.pc = "returned"]

Arg(w, i) == IF i <= Len(w.info) THEN w.info[i] ELSE JsUndefined

Connect_cb_info(w, ok) ==
    IF ~ok
    THEN Throw(w, "NULL", "Failed to parse arguments")
    ELSE LET w1 == [w EXCEPT !.argc = Len(w.info),
                             !.args = <<Arg(w, 1), Arg(w, 2), Arg(w, 3)>>]
         IN IF w1.argc < 3
            THEN Throw(w1, "NULL", "Usage: connect(iface, ip, port)")
            ELSE [w1 EXCEPT !.pc = "iface"]

Connect_iface(w) ==
    LET r == napi_get_value_string_utf8(w.args[1], IFNAMSIZ)
    IN IF r.status # "napi_ok"
       THEN Throw(w, "NULL", "Invalid iface argument")
       ELSE [w EXCEPT !.iface = r.buf, !.pc = "ip"]

Connect_ip(w) ==
    LET r == napi_get_value_string_utf8(w.args[2], INET_ADDRSTRLEN)
    IN IF r.status # "napi_ok"
       THEN Throw(w, "NULL", "Invalid ip argument")
       ELSE [w EXCEPT !.ip = r.buf, !.pc = "port"]

Connect_port(w) ==
    LET r == napi_get_value_int32(w.args[3])
    IN IF r.status # "napi_ok"
       THEN Throw(w, "NULL", "Invalid port argument")
       ELSE [w EXCEPT !.port = r.value, !.pc = "socket"]

Connect_socket(w, fd) ==
    LET w1 == [w EXCEPT !.s = fd,
                        !.sys = Append(@, [Sys("socket", fd, fd) EXCEPT
                                    !.errno = IF fd < 0 THEN "EMFILE" ELSE ""]),
                        !.sockets = IF fd < 0 THEN @
                                    ELSE [@ EXCEPT ![fd] = [open |-> TRUE,
                                              dev |-> <<>>, connected |-> FALSE]]]
    IN IF w1.s < 0
       THEN Throw(w1, "errno", "socket() failed")
       ELSE [w1 EXCEPT !.pc = "bindtodevice"]

Connect_bindtodevice(w, res) ==
    LET name == SubSeq(w.iface, 1, strlen(w.iface))
        r == IF res = "ok" THEN 0 ELSE -1
        w1 == [w EXCEPT !.sys = Append(@, [Sys("SO_BINDTODEVICE", w.s, r) EXCEPT
                                    !.name = name,
                                    !.errno = IF res = "ok" THEN "" ELSE res]),
                        !.sockets[w.s].dev = IF res = "ok" THEN name ELSE @]
    IN IF r < 0
       THEN Throw(close(w1, w1.s), "errno", "setsockopt(SO_BINDTODEVICE) failed")
       ELSE [w1 EXCEPT !.pc = "nodelay"]

Connect_nodelay_fatal(w, ok) ==
    LET r == IF ok THEN 0 ELSE -1
        w1 == [w EXCEPT !.sys = Append(@, [Sys("TCP_NODELAY", w.s, r) EXCEPT
                                    !.errno = IF ok THEN "" ELSE "ENOPROTOOPT"])]
    IN IF r < 0
       THEN Throw(close(w1, w1.s), "errno", "setsockopt(TCP_NODELAY) failed")
       ELSE [w1 EXCEPT !.pc = "inet_pton"]

Connect_nodelay(w, ok) ==
    LET r == IF ok THEN 0 ELSE -1
    IN [w EXCEPT !.sys = Append(@, [Sys("TCP_NODELAY", w.s, r) EXCEPT
                                    !.errno = IF ok THEN "" ELSE "ENOPROTOOPT"]),
                 !.pc = "inet_pton"]

Connect_inet_pton_noclose(w) ==
    LET r == inet_pton(CStr(w.ip))
        w1 == [w EXCEPT !.a = [sin_port |-> htons(w.port), sin_addr |-> r.addr],
                        !.sys = Append(@, [Sys("inet_pton", w.s, IF r.ok THEN 1 ELSE 0)
                                    EXCEPT !.name = CStr(w.ip), !.addr = r.addr])]
    IN IF ~r.ok
       THEN Throw(w1, "NULL", "inet_pton() failed: invalid IP address")
       ELSE [w1 EXCEPT !.pc = "connect"]

Connect_inet_pton(w) ==
    LET r == inet_pton(CStr(w.ip))
        w1 == [w EXCEPT !.a = [sin_port |-> htons(w.port), sin_addr |-> r.addr],
                        !.sys = Append(@, [Sys("inet_pton", w.s, IF r.ok THEN 1 ELSE 0)
                                    EXCEPT !.name = CStr(w.ip), !.addr = r.addr])]
    IN IF ~r.ok
       THEN Throw(close(w1, w1.s), "NULL", "inet_pton() failed: invalid IP address")
       ELSE [w1 EXCEPT !.pc = "connect"]

Connect_connect(w, res) ==
    LET r == IF res = "ok" THEN 0 ELSE -1
        w1 == [w EXCEPT !.sys = Append(@, [Sys("connect", w.s, r) EXCEPT
                                    !.addr = w.a.sin_addr,
                                    !.port = ntohs(w.a.sin_port),
                                    !.errno = IF res = "ok" THEN "" ELSE res]),
                        !.sockets[w.s].connected = (res = "ok")]
    IN IF r < 0
       THEN Throw(close(w1, w1.s), "errno", "connect() failed")
       ELSE [w1 EXCEPT !.pc = "result"]

Connect_result_closed(w, ok) ==
    IF ~ok
    THEN Throw(close(w, w.s), "NULL", "Failed to create return value")
    ELSE [close(w, w.s) EXCEPT !.ret = JsNumber(w.s), !.pc = "returned"]

Connect_result(w, ok) ==
    IF ~ok
    THEN Throw(close(w, w.s), "NULL", "Failed to create return value")
    ELSE [w EXCEPT !.ret = JsNumber(w.s), !.pc = "returned"]

(* ------------------------------ host ---------------------------------- *)
(* The caller invokes connect(...) with the arguments given. *)
Invoke(w, given) ==
    [Idle(w.sockets) EXCEPT !.pc = "cb_info", !.info = given,
                            !.before = OpenFds(w.sockets)]

(* The caller has taken the result or the exception. *)
Resume(w) == Idle(w.sockets)

(* The caller closes a descriptor it owns. *)
Release(w, fd) == [w EXCEPT !.sockets[fd] = Closed]

Given(i, j, k, n) == SubSeq(<<IfaceArgs[i], IpArgs[j], PortArgs[k]>>, 1, n)

(* ------------------------------ actions ------------------------------- *)
Init ==
    /\ pc = "idle"
    /\ info = <<>>
    /\ argc = 0
    /\ args = <<>>
    /\ iface = <<>>
    /\ ip = <<>>
    /\ port = 0
    /\ s = NoFd
    /\ a = NoAddr
    /\ exc = NoExc
    /\ ret = JsNull
    /\ sockets = [fd \in Fds |-> Closed]
    /\ before = {}
    /\ sys = <<>>
    /\ twin = Idle([fd \in Fds |-> Closed])

Call ==
    /\ pc = "idle"
    /\ \E i \in DOMAIN IfaceArgs, j \in DOMAIN IpArgs, k \in DOMAIN PortArgs,
          n \in 2 .. 3 :
          Install(Invoke(World, Given(i, j, k, n)))
    /\ UNCHANGED twin

GetCbInfo ==
    /\ pc = "cb_info"
    /\ \E ok \in BOOLEAN : Install(Connect_cb_info(World, ok))
    /\ UNCHANGED twin

GetIface ==
    /\ pc = "iface"
    /\ Install(Connect_iface(World))
    /\ UNCHANGED twin

GetIp ==
    /\ pc = "ip"
    /\ Install(Connect_ip(World))
    /\ UNCHANGED twin

GetPort ==
    /\ pc = "port"
    /\ Install(Connect_port(World))
    /\ UNCHANGED twin

Socket ==
    /\ pc = "socket"
    /\ \E fd \in SocketResults(sockets) : Install(Connect_socket(World, fd))
    /\ UNCHANGED twin

BindToDevice ==
    /\ pc = "bindtodevice"
    /\ \E res \in BindToDeviceResults(CStr(iface)) :
          Install(Connect_bindtodevice(World, res))
    /\ UNCHANGED twin

NoDelay ==
    /\ pc = "nodelay"
    /\ \E ok \in BOOLEAN : Install(Connect_nodelay(World, ok))
    /\ UNCHANGED twin

InetPton ==
    /\ pc = "inet_pton"
    /\ Install(Connect_inet_pton(World))
    /\ UNCHANGED twin

OsConnect ==
    /\ pc = "connect"
    /\ \E res \in {"ok"} \cup ConnectErrnos : Install(Connect_connect(World, res))
    /\ UNCHANGED twin

CreateResult ==
    /\ pc = "result"
    /\ \E ok \in BOOLEAN : Install(Connect_result(World, ok))
    /\ UNCHANGED twin

HostResume ==
    /\ pc = "returned"
    /\ Install(Resume(World))
    /\ UNCHANGED twin

HostClose ==
    /\ pc = "idle"
    /\ \E fd \in OpenFds(sockets) : Install(Release(World, fd))
    /\ UNCHANGED twin

Next ==
    \/ Call
    \/ GetCbInfo
    \/ GetIface
    \/ GetIp
    \/ GetPort
    \/ Socket
    \/ BindToDevice
    \/ NoDelay
    \/ InetPton
    \/ OsConnect
    \/ CreateResult
    \/ HostResume
    \/ HostClose

Spec == Init /\ [][Next]_vars

(* ---------------------- two runs of one invocation -------------------- *)
(* PairSpec runs the same invocation twice, in two separate processes that  *)
(* start from the same descriptor table: the caller passes the same         *)
(* arguments and every system and library call has the same outcome in      *)
(* both runs, except setsockopt(TCP_NODELAY), which succeeds in one run     *)
(* exactly when it fails in the other.                                      *)
PairCall ==
    /\ pc = "idle"
    /\ \E i \in DOMAIN IfaceArgs, j \in DOMAIN IpArgs, k \in DOMAIN PortArgs,
          n \in 2 .. 3 :
          /\ Install(Invoke(World, Given(i, j, k, n)))
          /\ twin' = Invoke(twin, Given(i, j, k, n))

PairGetCbInfo ==
    /\ pc = "cb_info"
    /\ \E ok \in BOOLEAN :
          /\ Install(Connect_cb_info(World, ok))
          /\ twin' = IF twin.pc = "cb_info" THEN Connect_cb_info(twin, ok) ELSE twin

PairGetIface ==
    /\ pc = "iface"
    /\ Install(Connect_iface(World))
    /\ twin' = IF twin.pc = "iface" THEN Connect_iface(twin) ELSE twin

PairGetIp ==
    /\ pc = "ip"
    /\ Install(Connect_ip(World))
    /\ twin' = IF twin.pc = "ip" THEN Connect_ip(twin) ELSE twin

PairGetPort ==
    /\ pc = "port"
    /\ Install(Connect_port(World))
    /\ twin' = IF twin.pc = "port" THEN Connect_port(twin) ELSE twin

PairSocket ==
    /\ pc = "socket"
    /\ \E fd \in SocketResults(sockets) :
          /\ Install(Connect_socket(World, fd))
          /\ twin' = IF twin.pc = "socket" THEN Connect_socket(twin, fd) ELSE twin

PairBindToDevice ==
    /\ pc = "bindtodevice"
    /\ \E res \in BindToDeviceResults(CStr(iface)) :
          /\ Install(Connect_bindtodevice(World, res))
          /\ twin' = IF twin.pc = "bindtodevice"
                     THEN Connect_bindtodevice(twin, res) ELSE twin

PairNoDelay ==
    /\ pc = "nodelay"
    /\ \E ok \in BOOLEAN :
          /\ Install(Connect_nodelay(World, ok))
          /\ twin' = IF twin.pc = "nodelay" THEN Connect_nodelay(twin, ~ok) ELSE twin

PairInetPton ==
    /\ pc = "inet_pton"
    /\ Install(Connect_inet_pton(World))
    /\ twin' = IF twin.pc = "inet_pton" THEN Connect_inet_pton(twin) ELSE twin

PairOsConnect ==
    /\ pc = "connect"
    /\ \E res \in {"ok"} \cup ConnectErrnos :
          /\ Install(Connect_connect(World, res))
          /\ twin' = IF twin.pc = "connect" THEN Connect_connect(twin, res) ELSE twin

PairCreateResult ==
    /\ pc = "result"
    /\ \E ok \in BOOLEAN :
          /\ Install(Connect_result(World, ok))
          /\ twin' = IF twin.pc = "result" THEN Connect_result(twin, ok) ELSE twin

PairHostResume ==
    /\ pc = "returned"
    /\ twin.pc = "returned"
    /\ Install(Resume(World))
    /\ twin' = Resume(twin)

PairHostClose ==
    /\ pc = "idle"
    /\ \E fd \in OpenFds(sockets) \cap OpenFds(twin.sockets) :
          /\ Install(Release(World, fd))
          /\ twin' = Release(twin, fd)

PairNext ==
    \/ PairCall
    \/ PairGetCbInfo
    \/ PairGetIface
    \/ PairGetIp
    \/ PairGetPort
    \/ PairSocket
    \/ PairBindToDevice
    \/ PairNoDelay
    \/ PairInetPton
    \/ PairOsConnect
    \/ PairCreateResult
    \/ PairHostResume
    \/ PairHostClose

PairSpec == Init /\ [][PairNext]_vars

(* ------------------------------ properties ---------------------------- *)
(* The error kind a thrown message stands for. *)
Kind(msg) ==
    CASE msg = "Failed to parse arguments" -> "InvalidArgument"
      [] msg = "Usage: connect(iface, ip, port)" -> "InvalidArgument"
      [] msg = "Invalid iface argument" -> "InvalidArgument"
      [] msg = "Invalid ip argument" -> "InvalidArgument"
      [] msg = "Invalid port argument" -> "InvalidArgument"
      [] msg = "socket() failed" -> "SocketCreateFailed"
      [] msg = "setsockopt(SO_BINDTODEVICE) failed" -> "InterfaceBindFailed"
      [] msg = "inet_pton() failed: invalid IP address" -> "InvalidAddress"
      [] msg = "connect() failed" -> "ConnectFailed"
      [] OTHER -> "Other"

Calls(op) == {i \in DOMAIN sys : sys[i].op = op}
Failed == pc = "returned" /\ exc # NoExc
Succeeded == pc = "returned" /\ ret.t = "number"
InCall == pc # "idle"
Supplied(i) == IF i <= Len(info) THEN info[i] ELSE JsUndefined

Created == {sys[i].ret : i \in {j \in Calls("socket") : sys[j].ret >= 0}}
ClosesOf(fd) == {i \in Calls("close") : sys[i].fd = fd}
BindSucceeded == \E i \in Calls("SO_BINDTODEVICE") : sys[i].ret = 0
ValidIPv4(str) == inet_pton(str).ok

(* C1. Whenever Connect returns with an exception pending, whichever step   *)
(* threw it, the set of open descriptors equals the set that was open when  *)
(* the call began, and every descriptor the call created has been closed    *)
(* exactly once.                                                            *)
NoLeakOnFailure ==
    Failed =>
        /\ OpenFds(sockets) = before
        /\ \A fd \in Created : Cardinality(ClosesOf(fd)) = 1

(* A failed call that had created a socket, in a process that already held  *)
(* an open descriptor; the last step (creating the return value) is one of  *)
(* the failures reached.                                                    *)
NoLeakOnFailureWitness ==
    /\ Failed
    /\ exc.msg = "Failed to create return value"
    /\ Created # {}
    /\ before # {}

(* C2. A call creates at most one socket; when Connect returns a handle,    *)
(* the handle is the descriptor the call created, it is connected and open, *)
(* the call never closed anything, and nothing else the call created is     *)
(* open.                                                                    *)
SuccessHandoff ==
    /\ Cardinality(Calls("socket")) <= 1
    /\ Succeeded =>
          /\ exc = NoExc
          /\ Created = {ret.num}
          /\ sockets[ret.num].open
          /\ sockets[ret.num].connected
          /\ Calls("close") = {}
          /\ OpenFds(sockets) = before \cup {ret.num}

SuccessHandoffWitness ==
    /\ Succeeded
    /\ before # {}
    /\ ret.num \notin before

(* C3. A call whose interface name does not fit in IFNAMSIZ bytes creates   *)
(* no socket and fails with InvalidArgument.                                *)
OversizedIfaceRejected ==
    (InCall /\ Supplied(1).t = "string" /\ Len(Supplied(1).str) >= IFNAMSIZ) =>
        /\ Calls("socket") = {}
        /\ pc = "returned" => (Failed /\ Kind(exc.msg) = "InvalidArgument")

(* C4. A call whose address string is no dotted-decimal IPv4 literal never  *)
(* issues connect(), and fails with InvalidAddress once the socket was      *)
(* created and bound.                                                       *)
InvalidAddressRejected ==
    (InCall /\ Supplied(2).t = "string" /\ ~ValidIPv4(Supplied(2).str)) =>
        /\ Calls("connect") = {}
        /\ (pc = "returned" /\ BindSucceeded) =>
              (Failed /\ Kind(exc.msg) = "InvalidAddress")

(* C5. When Connect returns a handle, the returned socket is bound to       *)
(* exactly the interface name the caller supplied, and connect() was issued *)
(* after that binding.                                                      *)
BoundToSuppliedInterface ==
    Succeeded =>
        /\ Supplied(1).str # <<>>
        /\ sockets[ret.num].dev = Supplied(1).str
        /\ \E i \in Calls("SO_BINDTODEVICE") :
              /\ sys[i].ret = 0
              /\ sys[i].name = Supplied(1).str
              /\ \A j \in Calls("connect") : i < j

(* C6. When connect() fails, the exception has kind ConnectFailed and its   *)
(* code is the error number that connect() set.                             *)
ConnectErrnoPreserved ==
    \A i \in Calls("connect") :
        (pc = "returned" /\ sys[i].ret < 0) =>
            /\ Kind(exc.msg) = "ConnectFailed"
            /\ exc.code = sys[i].errno

(* C7. A call whose interface name is the empty string fails without any    *)
(* system call: no socket is created and no binding option is applied.      *)
EmptyIfaceNeverReachesOS ==
    (InCall /\ Supplied(1).t = "string" /\ Supplied(1).str = <<>>) =>
        /\ Calls("socket") = {}
        /\ Calls("SO_BINDTODEVICE") = {}
        /\ pc = "returned" => Failed

Steps == <<"socket", "SO_BINDTODEVICE", "TCP_NODELAY", "inet_pton", "connect">>
IsStep(e) == e.op # "close"
StepsDone == SelectSeq(sys, IsStep)
StepFailed(e) ==
    \/ e.op \in {"socket", "SO_BINDTODEVICE", "connect"} /\ e.ret < 0
    \/ e.op = "inet_pton" /\ e.ret = 0
StepKind(op) ==
    CASE op = "socket" -> "SocketCreateFailed"
      [] op = "SO_BINDTODEVICE" -> "InterfaceBindFailed"
      [] op = "inet_pton" -> "InvalidAddress"
      [] op = "connect" -> "ConnectFailed"
      [] OTHER -> "None"

(* The steps run in the fixed order, each at most once, and a failing fatal *)
(* step is the last step and gives the error its kind.                      *)
StepOrderOnly ==
    /\ Len(StepsDone) <= Len(Steps)
    /\ \A i \in DOMAIN StepsDone :
          /\ StepsDone[i].op = Steps[i]
          /\ StepFailed(StepsDone[i]) =>
                /\ i = Len(StepsDone)
                /\ Failed
                /\ Kind(exc.msg) = StepKind(StepsDone[i].op)

(* C8. The steps run in the order socket, bind, no-delay, parse, connect,   *)
(* each at most once; the first failing fatal step ends the call and gives  *)
(* the error its kind; a call naming an interface that does not exist fails *)
(* with InterfaceBindFailed once the bind step is reached; connect() is     *)
(* never issued on a socket that is not bound to an interface.              *)
StepOrderAndShortCircuit ==
    /\ StepOrderOnly
    /\ (pc = "returned" /\ Supplied(1).t = "string"
          /\ Supplied(1).str \notin Interfaces /\ Calls("SO_BINDTODEVICE") # {}) =>
             (Failed /\ Kind(exc.msg) = "InterfaceBindFailed")
    /\ \A j \in Calls("connect") :
          \E i \in Calls("SO_BINDTODEVICE") :
              i < j /\ sys[i].ret = 0 /\ sys[i].name # <<>>

(* C9. Two runs of the same call, alike in every outcome but that of        *)
(* setsockopt(TCP_NODELAY), are at the same step at all times and return    *)
(* the same value or the same exception, with the same descriptors open.    *)
NoDelayBestEffort ==
    /\ twin.pc = pc
    /\ twin.s = s
    /\ pc = "returned" =>
          /\ twin.ret = ret
          /\ twin.exc = exc
          /\ OpenFds(twin.sockets) = OpenFds(sockets)

(* Both runs returned the handle; TCP_NODELAY failed in one of them and     *)
(* succeeded in the other.                                                  *)
NoDelayBestEffortWitness ==
    /\ Succeeded
    /\ twin.pc = "returned"
    /\ \E i \in Calls("TCP_NODELAY") : sys[i].ret < 0 /\ twin.sys[i].ret = 0

(* C10 as stated. connect() is issued to exactly the port number the caller *)
(* supplied, whatever that number is.                                       *)
PortTakenAsGiven ==
    \A i \in Calls("connect") : sys[i].port = Supplied(3).num

(* C10 as amended. connect() is issued to the supplied port reduced modulo  *)
(* 2^16; that is the supplied port itself when it lies in 0 .. 65535.       *)
PortNarrowedTo16Bits ==
    \A i \in Calls("connect") :
        /\ sys[i].port = Supplied(3).num % 65536
        /\ Supplied(3).num \in 0 .. 65535 => sys[i].port = Supplied(3).num

(* connect() issued for a supplied port outside 0 .. 65535, and for one     *)
(* inside whose two bytes differ.                                           *)
PortNarrowedTo16BitsWitness ==
    /\ Calls("connect") # {}
    /\ Supplied(3).num = 65616
    /\ \A i \in Calls("connect") : sys[i].port = 80

====
